---------------------------- MODULE Spec2Model ----------------------------
(***************************************************************************)
(* Model of src/llms/openai.rs: OpenAIClient::new, the strategy selector   *)
(* should_use_chat_completion, the two request paths get_completions and   *)
(* get_chat_completions, and LlmClient::completions.                       *)
(*                                                                         *)
(* Strings whose characters matter (model identifiers, completion texts)   *)
(* are sequences of one-character strings.  Strings of which only          *)
(* emptiness matters (api_key, api_base, proxy, prompt) are TLA+ strings.  *)
(* Option<T> is a sequence of length 0 (None) or 1 (Some).                 *)
(***************************************************************************)
EXTENDS Integers, Sequences, FiniteSets, TLC

VARIABLES settings, built, client, call

vars == <<settings, built, client, call>>

-----------------------------------------------------------------------------
(* Bounds of the model *)

\* largest retry count the settings carry
MaxRetries == 2

\* number of attempts the stub transport scripts
MaxAttempts == 3

-----------------------------------------------------------------------------
(* Program constants *)

\* const COMPLETION_TOKEN_LIMIT: usize = 100;
COMPLETION_TOKEN_LIMIT == 100

\* number of values of the u16 that max_tokens is cast to
U16_RANGE == 65536

-----------------------------------------------------------------------------
(* Option and Result *)

None == <<>>
Some(x) == <<x>>
IsSome(o) == o # <<>>
UnwrapOrDefault(o, d) == IF o = <<>> THEN d ELSE o[1]

Ok(v) == [kind |-> "Ok", value |-> Some(v), error |-> "none"]
Err(e) == [kind |-> "Err", value |-> None, error |-> e]
IsOk(r) == r.kind = "Ok"

-----------------------------------------------------------------------------
(* Characters *)

LowerLetters == <<"a","b","c","d","e","f","g","h","i","j","k","l","m",
                  "n","o","p","q","r","s","t","u","v","w","x","y","z">>
UpperLetters == <<"A","B","C","D","E","F","G","H","I","J","K","L","M",
                  "N","O","P","Q","R","S","T","U","V","W","X","Y","Z">>

IndexIn(c, letters) == CHOOSE i \in 1..Len(letters) : letters[i] = c
IsUpper(c) == \E i \in 1..Len(UpperLetters) : UpperLetters[i] = c

\* char::to_lowercase on the characters of the model
CharToLowercase(c) == IF IsUpper(c) THEN LowerLetters[IndexIn(c, UpperLetters)] ELSE c

\* str::to_lowercase
ToLowercase(s) == [i \in 1..Len(s) |-> CharToLowercase(s[i])]

\* str::starts_with
StartsWith(s, p) == Len(s) >= Len(p) /\ SubSeq(s, 1, Len(p)) = p

\* char::is_whitespace on the characters of the model
IsWhitespace(c) == c \in {" ", "\n", "\t", "\r"}

RECURSIVE TrimStart(_)
\* str::trim_start
TrimStart(s) ==
    IF s # <<>> /\ IsWhitespace(Head(s)) THEN TrimStart(Tail(s)) ELSE s

RECURSIVE TrimEnd(_)
\* str::trim_end
TrimEnd(s) ==
    IF s # <<>> /\ IsWhitespace(s[Len(s)])
    THEN TrimEnd(SubSeq(s, 1, Len(s) - 1))
    ELSE s

\* a plausible slip: trim_start in place of trim
TrimStartOnly(s) == TrimStart(s)

\* str::trim, as called on the completion at the end of completions
Trim(s) == TrimEnd(TrimStart(s))

-----------------------------------------------------------------------------
(* Model identifiers *)

GPT4 == <<"g","p","t","-","4">>
GPT35TURBO == <<"g","p","t","-","3",".","5","-","t","u","r","b","o">>

\* a plausible slip: the prefixes compared without to_lowercase
StartsWithGpt4CaseSensitive(model) ==
    StartsWith(model, GPT4) \/ StartsWith(model, GPT35TURBO)

\* OpenAIClient::should_use_chat_completion
should_use_chat_completion(model) ==
    \/ StartsWith(ToLowercase(model), GPT4)
    \/ StartsWith(ToLowercase(model), GPT35TURBO)


\* identifiers the settings may carry; each prefix in several casings, with
\* and without a suffix, and near misses of both prefixes
Models ==
    { GPT4,
      <<"G","P","T","-","4">>,
      <<"G","p","t","-","4","-","3","2","k">>,
      <<"g","p","t","-","4","o">>,
      GPT35TURBO,
      <<"G","P","T","-","3",".","5","-","T","U","R","B","O">>,
      <<"g","p","t","-","3",".","5","-","T","u","r","b","o","-","1","6","k">>,
      <<"g","p","t","-","3",".","5">>,
      <<"g","p","t","-","3",".","5","-","t","u","r","b","0">>,
      <<"g","p","t","4">>,
      <<"g","p","t","-">>,
      <<"f","t",":","g","p","t","-","4">>,
      <<"t","e","x","t","-","d","a","v","i","n","c","i","-","0","0","3">>,
      <<"D","a","v","i","n","c","i">>,
      <<>> }

-----------------------------------------------------------------------------
(* OpenAISettings and OpenAIClient::new *)

API_KEY == "sk-key"
CUSTOM_BASE == "http://localhost:8080/v1"
GOOD_PROXY == "http://proxy.local:3128"
BAD_PROXY == "::not a url::"

\* Proxy::all(proxy) returns Ok for a well-formed proxy URL
ProxyAllOk(proxy) == proxy = GOOD_PROXY

\* every OpenAISettings value; http_build_ok is whether http_client.build()
\* succeeds in the environment the client is constructed in
AllSettings ==
    [ api_base : {None, Some(""), Some(CUSTOM_BASE)},
      api_key  : {None, Some(""), Some(API_KEY)},
      model    : {None} \cup {Some(m) : m \in {<<>>, GPT4, <<"D","a","v","i","n","c","i">>}},
      proxy    : {None, Some(""), Some(GOOD_PROXY), Some(BAD_PROXY)},
      retries  : {None} \cup {Some(n) : n \in 0..MaxRetries},
      http_build_ok : BOOLEAN ]

\* the settings the completion calls are explored under: every model
\* identifier, with and without a custom base, every retry count
CallSettings ==
    [ api_base : {None, Some(CUSTOM_BASE)},
      api_key  : {Some(API_KEY)},
      model    : {None} \cup {Some(m) : m \in Models},
      proxy    : {None},
      retries  : {None} \cup {Some(n) : n \in 0..MaxRetries},
      http_build_ok : {TRUE} ]

\* a plausible slip: the model check placed before the API-key check
NewModelCheckFirst(s) ==
    LET api_base == UnwrapOrDefault(s.api_base, "")
        api_key  == UnwrapOrDefault(s.api_key, "")
        model    == UnwrapOrDefault(s.model, <<>>)
    IN  IF api_base = "" /\ model = <<>> THEN Err("MissingModelError")
        ELSE IF api_key = "" THEN Err("MissingApiKeyError")
        ELSE IF IsSome(s.proxy) /\ s.proxy[1] # "" /\ ~ProxyAllOk(s.proxy[1])
             THEN Err("InvalidProxyError")
        ELSE IF ~s.http_build_ok THEN Err("HttpClientBuildError")
        ELSE Ok([model |-> model,
                 api_base |-> api_base,
                 backoff |-> IF UnwrapOrDefault(s.retries, 0) > 0
                             THEN "max_elapsed_60s" ELSE "library_default"])

\* OpenAIClient::new.  The errors are anyhow errors told apart by message
\* or origin; they carry the names the specification gives them.
\* backoff: with_backoff installs a policy with a 60 s elapsed-time ceiling
\* only when retries > 0; otherwise the client keeps the policy
\* Client::with_config gave it.
OpenAIClientNew(s) ==
    LET api_base == UnwrapOrDefault(s.api_base, "")
        api_key  == UnwrapOrDefault(s.api_key, "")
        model    == UnwrapOrDefault(s.model, <<>>)
    IN  IF api_key = "" THEN Err("MissingApiKeyError")
        ELSE IF api_base = "" /\ model = <<>> THEN Err("MissingModelError")
        ELSE IF IsSome(s.proxy) /\ s.proxy[1] # "" /\ ~ProxyAllOk(s.proxy[1])
             THEN Err("InvalidProxyError")
        ELSE IF ~s.http_build_ok THEN Err("HttpClientBuildError")
        ELSE Ok([model |-> model,
                 api_base |-> api_base,
                 backoff |-> IF UnwrapOrDefault(s.retries, 0) > 0
                             THEN "max_elapsed_60s" ELSE "library_default"])

-----------------------------------------------------------------------------
(* Inputs of one completions call *)

Prompts == {"Summarize this diff", ""}

\* what get_completion_max_tokens / get_chat_completion_max_tokens return
\* for the client's model and the prompt: an error when the model has no
\* tokenizer mapping, otherwise the remaining budget (a usize)
Estimates ==
    {Err("UnknownModelError")}
        \cup {Ok(b) : b \in {0, 99, 100, 4000, 65535, 65536, 65636}}

Texts ==
    { <<>>,
      <<" ", "\n">>,
      <<"h", "i">>,
      <<" ", "\n", "h", " ", "I", "\t", "\n">> }

LATER_TEXT == <<"z">>

\* CreateCompletionResponse: choices with a text
CompletionResponses ==
    {[choices |-> <<>>]}
        \cup {[choices |-> <<[text |-> t]>>] : t \in Texts}
        \cup {[choices |-> <<[text |-> t], [text |-> LATER_TEXT]>>] : t \in Texts}

\* CreateChatCompletionResponse: choices with a message whose content is
\* an Option
ChatResponses ==
    {[choices |-> <<>>]}
        \cup {[choices |-> <<[content |-> c]>>] :
                c \in {None} \cup {Some(t) : t \in Texts}}
        \cup {[choices |-> <<[content |-> c], [content |-> Some(LATER_TEXT)]>>] :
                c \in {None} \cup {Some(t) : t \in Texts}}

TRANSIENT == [kind |-> "TransientFailure"]
PERMANENT == [kind |-> "PermanentFailure"]
Response(r) == [kind |-> "Response", response |-> r]

Transients(k) == [i \in 1..k |-> TRANSIENT]

\* what the stub transport answers attempt by attempt: k transient
\* failures, then a permanent failure or a response; or failures only
Scripts(responses) ==
    {Append(Transients(k), last) :
        k \in 0..(MaxAttempts - 1),
        last \in {PERMANENT} \cup {Response(r) : r \in responses}}
        \cup {Transients(MaxAttempts)}

\* the number of attempts after which the client's retry policy gives up in
\* one call.  A policy with an elapsed-time ceiling gives up when the
\* ceiling is passed, after a number of attempts that depends on timing and
\* not on the configured retry count.  What the policy left in place by
\* Client::with_config does on a transient failure is not fixed by this
\* source, so it ranges over one attempt and more.
AttemptLimits(backoff) == 1..MaxAttempts

CallInputs(c) ==
    LET responses == IF should_use_chat_completion(c.model)
                     THEN ChatResponses ELSE CompletionResponses
    IN  [ prompt : Prompts,
          estimate : {e \in Estimates :
                         ~IsOk(e) \/ e.value[1] < COMPLETION_TOKEN_LIMIT},
          script : {sc \in Scripts(responses) : Len(sc) = 1},
          limit : {1} ]
        \cup
        [ prompt : Prompts,
          estimate : {e \in Estimates :
                         IsOk(e) /\ e.value[1] >= COMPLETION_TOKEN_LIMIT},
          script : Scripts(responses),
          limit : AttemptLimits(c.backoff) ]

-----------------------------------------------------------------------------
(* The API call under the client's retry policy *)

RECURSIVE Attempt(_, _, _)
\* attempt i of one create call: a response or a permanent failure ends
\* the call, a transient failure is retried until the policy gives up
Attempt(script, limit, i) ==
    LET outcome == script[i]
    IN  IF outcome.kind = "TransientFailure" /\ i < limit /\ i < Len(script)
        THEN Attempt(script, limit, i + 1)
        ELSE [calls |-> i, outcome |-> outcome]

\* client.completions().create(request).await / client.chat().create(request).await
Create(script, limit) == Attempt(script, limit, 1)

\* the error `?` propagates from a failed create call
ApiError(outcome) ==
    IF outcome.kind = "TransientFailure" THEN Err("TransportError")
    ELSE Err("ProviderError")

\* the requests one create call put on the wire: the same request once per attempt
Sent(endpoint, request, calls) ==
    [i \in 1..calls |-> [endpoint |-> endpoint, request |-> request]]

-----------------------------------------------------------------------------
(* get_completions and get_chat_completions *)

\* a plausible slip: the estimator's error replaced by a default budget
PromptTokenLimitUnwrapOr(estimate) ==
    IF IsOk(estimate) THEN estimate ELSE Ok(COMPLETION_TOKEN_LIMIT)

\* let prompt_token_limit = get_..._max_tokens(&self.model, ...)?;
prompt_token_limit(estimate) == estimate

\* a plausible slip: the floor off by one
BelowLimitOffByOne(tokens) == tokens < COMPLETION_TOKEN_LIMIT - 1

\* if prompt_token_limit < COMPLETION_TOKEN_LIMIT
BelowLimit(tokens) == tokens < COMPLETION_TOKEN_LIMIT

\* prompt_token_limit as u16
AsU16(n) == n % U16_RANGE

\* CreateCompletionRequestArgs::default()...build()
CompletionRequest(model, prompt, tokens) ==
    [ model |-> model,
      prompt |-> Some(prompt),
      messages |-> None,
      max_tokens |-> Some(AsU16(tokens)),
      temperature |-> Some("0.5"),
      top_p |-> Some("1.0"),
      frequency_penalty |-> Some("0.0"),
      presence_penalty |-> Some("0.0") ]

\* ChatCompletionRequestMessageArgs::default().role(Role::User).content(prompt)
UserMessage(prompt) == [role |-> "user", content |-> prompt]

\* CreateChatCompletionRequestArgs::default().model(..).messages(..).build()
ChatCompletionRequest(model, messages) ==
    [ model |-> model,
      prompt |-> None,
      messages |-> Some(messages),
      max_tokens |-> None,
      temperature |-> None,
      top_p |-> None,
      frequency_penalty |-> None,
      presence_penalty |-> None ]

\* response.choices.first().ok_or(..).map(|c| c.text.clone())
FirstCompletion(response) ==
    IF response.choices = <<>> THEN Err("EmptyResponseError")
    ELSE Ok(response.choices[1].text)

\* a plausible slip: content.unwrap_or_default(), as the debug! line has it
FirstChatContentUnwrapOrDefault(response) ==
    IF response.choices = <<>> THEN Err("EmptyResponseError")
    ELSE Ok(UnwrapOrDefault(response.choices[1].content, <<>>))

\* response.choices.into_iter().next(): its message.content.ok_or(..), or bail
FirstChatContent(response) ==
    IF response.choices = <<>> THEN Err("EmptyResponseError")
    ELSE IF response.choices[1].content = None THEN Err("EmptyResponseError")
    ELSE Ok(response.choices[1].content[1])

\* OpenAIClient::get_completions
get_completions(c, in) ==
    LET limit == prompt_token_limit(in.estimate)
    IN  IF ~IsOk(limit) THEN [result |-> limit, sent |-> <<>>]
        ELSE IF BelowLimit(limit.value[1])
        THEN [result |-> Err("PromptTooLargeError"), sent |-> <<>>]
        ELSE LET request == CompletionRequest(c.model, in.prompt, limit.value[1])
                 created == Create(in.script, in.limit)
             IN  [ result |-> IF created.outcome.kind = "Response"
                              THEN FirstCompletion(created.outcome.response)
                              ELSE ApiError(created.outcome),
                   sent |-> Sent("completions", request, created.calls) ]

\* OpenAIClient::get_chat_completions
get_chat_completions(c, in) ==
    LET messages == <<UserMessage(in.prompt)>>
        limit == prompt_token_limit(in.estimate)
    IN  IF ~IsOk(limit) THEN [result |-> limit, sent |-> <<>>]
        ELSE IF BelowLimit(limit.value[1])
        THEN [result |-> Err("PromptTooLargeError"), sent |-> <<>>]
        ELSE LET request == ChatCompletionRequest(c.model, messages)
                 created == Create(in.script, in.limit)
             IN  [ result |-> IF created.outcome.kind = "Response"
                              THEN FirstChatContent(created.outcome.response)
                              ELSE ApiError(created.outcome),
                   sent |-> Sent("chat/completions", request, created.calls) ]

\* the path completions takes for the client's model
Path(c, in) ==
    IF should_use_chat_completion(c.model)
    THEN get_chat_completions(c, in)
    ELSE get_completions(c, in)

\* the stub transport after n attempts: the outcomes not yet given; it goes
\* on answering as its last scripted attempt
Advance(script, n) ==
    IF n < Len(script) THEN SubSeq(script, n + 1, Len(script))
    ELSE <<script[Len(script)]>>

\* a hand-written retry around the path: a failed call is made once more
completionsRetryOnError(c, in) ==
    LET first == Path(c, in)
        again == Path(c, [in EXCEPT !.script = Advance(in.script, Len(first.sent))])
    IN  IF IsOk(first.result) \/ first.sent = <<>>
        THEN [ result |-> IF IsOk(first.result)
                          THEN Ok(Trim(first.result.value[1]))
                          ELSE first.result,
               sent |-> first.sent ]
        ELSE [ result |-> IF IsOk(again.result)
                          THEN Ok(Trim(again.result.value[1]))
                          ELSE again.result,
               sent |-> first.sent \o again.sent ]

\* LlmClient::completions for OpenAIClient
completions(c, in) ==
    LET completion == Path(c, in)
    IN  [ result |-> IF IsOk(completion.result)
                     THEN Ok(Trim(completion.result.value[1]))
                     ELSE completion.result,
          sent |-> completion.sent ]

-----------------------------------------------------------------------------
(* State machine *)

\* settings: the OpenAISettings given to new, once it was called
\* built:    "unbuilt", or how new ended: "Ok" or the error it returned
\* client:   the OpenAIClient new returned (model, API base, retry policy)
\* call:     the completions call last made and not yet dropped: its inputs,
\*           the Result it returned and the requests it put on the wire
TypeOK ==
    /\ settings \in {None} \cup {Some(s) : s \in AllSettings \cup CallSettings}
    /\ built \in {"unbuilt", "Ok", "MissingApiKeyError", "MissingModelError",
                  "InvalidProxyError", "HttpClientBuildError"}
    /\ client = None \/ (Len(client) = 1 /\ built = "Ok")
    /\ call = None \/ (Len(call) = 1 /\ client # None)

Init ==
    /\ settings = None
    /\ built = "unbuilt"
    /\ client = None
    /\ call = None

\* OpenAIClient::new(settings), for settings drawn from S
New(S) ==
    /\ built = "unbuilt"
    /\ \E s \in S :
        LET r == OpenAIClientNew(s)
        IN  /\ settings' = Some(s)
            /\ built' = IF IsOk(r) THEN "Ok" ELSE r.error
            /\ client' = r.value
            /\ call' = None

NewClient == New(CallSettings)

NewAnySettings == New(AllSettings)

\* client.completions(prompt).await, with the estimator's answer and the
\* transport's behaviour as inputs
Completions ==
    /\ client # None
    /\ call = None
    /\ \E in \in CallInputs(client[1]) :
        LET out == completions(client[1], in)
        IN  call' = Some([input |-> in, result |-> out.result, sent |-> out.sent])
    /\ UNCHANGED <<settings, built, client>>

\* the caller drops the returned Result; the client holds no per-call state
Discard ==
    /\ call # None
    /\ call' = None
    /\ UNCHANGED <<settings, built, client>>

Next == NewClient \/ Completions \/ Discard

Spec == Init /\ [][Next]_vars

NextNew == NewAnySettings

SpecNew == Init /\ [][NextNew]_vars

-----------------------------------------------------------------------------
(* Properties *)

Called == call # None
TheCall == call[1]
TheClient == client[1]
TheSettings == settings[1]

Budget == TheCall.input.estimate.value[1]
BudgetOk == IsOk(TheCall.input.estimate) /\ Budget >= COMPLETION_TOKEN_LIMIT
NetworkCalls == Len(TheCall.sent)
ConfiguredRetries == UnwrapOrDefault(TheSettings.retries, 0)
ChatModel == should_use_chat_completion(TheClient.model)

\* the script is k transient failures followed by a response
FailsThenResponds(script, k) ==
    /\ Len(script) = k + 1
    /\ \A i \in 1..k : script[i] = TRANSIENT
    /\ script[k + 1].kind = "Response"

\* C1: a call whose remaining budget is below 100 returns
\* PromptTooLargeError and makes no network call, on the legacy and on the
\* chat path, with or without retries configured.
C1_BelowFloorRejected ==
    (Called /\ IsOk(TheCall.input.estimate) /\ Budget < 100)
        => /\ TheCall.result = Err("PromptTooLargeError")
           /\ NetworkCalls = 0

\* a chat-path call with retries configured, one token under the floor,
\* offered a transport that would have answered
C1_Witness ==
    /\ Called
    /\ ChatModel
    /\ ConfiguredRetries > 0
    /\ TheCall.input.estimate = Ok(99)
    /\ TheCall.input.script[1].kind = "Response"
    /\ TheCall.result = Err("PromptTooLargeError")

\* C3: with N > 0 retries configured and a transport that fails transiently
\* N times and then succeeds, a call whose budget is at least 100 makes at
\* most N+1 network calls.
C3_AtMostNPlusOneCalls ==
    (Called /\ BudgetOk /\ ConfiguredRetries > 0
        /\ FailsThenResponds(TheCall.input.script, ConfiguredRetries))
        => NetworkCalls <= ConfiguredRetries + 1

\* two retries configured, two transient failures, the third attempt answers
C3_Witness ==
    /\ Called
    /\ BudgetOk
    /\ ConfiguredRetries = 2
    /\ FailsThenResponds(TheCall.input.script, 2)
    /\ NetworkCalls = 3
    /\ IsOk(TheCall.result)

\* the settings as new reads them
KeyEmpty == UnwrapOrDefault(TheSettings.api_key, "") = ""
BaseEmpty == UnwrapOrDefault(TheSettings.api_base, "") = ""
ModelEmpty == UnwrapOrDefault(TheSettings.model, <<>>) = <<>>
ProxyMalformed ==
    /\ IsSome(TheSettings.proxy)
    /\ TheSettings.proxy[1] # ""
    /\ TheSettings.proxy[1] # GOOD_PROXY

\* C4 as stated: each failure follows from its own condition alone, and an
\* empty apiBase with a non-empty model is enough to succeed.
C4_AsStated ==
    built # "unbuilt"
        => /\ KeyEmpty => built = "MissingApiKeyError"
           /\ (BaseEmpty /\ ModelEmpty) => built = "MissingModelError"
           /\ ProxyMalformed => built = "InvalidProxyError"
           /\ (BaseEmpty /\ ~ModelEmpty) => built = "Ok"
           /\ built = "Ok" => (~KeyEmpty /\ (~ModelEmpty \/ ~BaseEmpty))

\* C4 (amended): the checks are made in order.  An empty apiKey fails with
\* MissingApiKeyError; otherwise an empty apiBase with an empty model fails
\* with MissingModelError; otherwise a non-empty malformed proxy fails with
\* InvalidProxyError; otherwise construction succeeds (in particular with an
\* empty apiBase and a non-empty model) when the HTTP client can be built.
\* Every constructed client had a non-empty apiKey and has a non-empty model
\* or a custom API base.
C4_ChecksInOrder ==
    built # "unbuilt"
        => /\ KeyEmpty => built = "MissingApiKeyError"
           /\ (~KeyEmpty /\ BaseEmpty /\ ModelEmpty) => built = "MissingModelError"
           /\ (~KeyEmpty /\ ~(BaseEmpty /\ ModelEmpty) /\ ProxyMalformed)
                => built = "InvalidProxyError"
           /\ (~KeyEmpty /\ ~(BaseEmpty /\ ModelEmpty) /\ ~ProxyMalformed
                    /\ TheSettings.http_build_ok)
                => (built = "Ok" /\ client # None)
           /\ built = "Ok" => (~KeyEmpty /\ (~ModelEmpty \/ ~BaseEmpty))
           /\ built # "Ok" => client = None

\* a malformed proxy rejected after the key and the model were accepted,
\* with the default API base
C4_Witness ==
    /\ built = "InvalidProxyError"
    /\ ~KeyEmpty
    /\ BaseEmpty
    /\ ~ModelEmpty

\* the response the transport gave to the last attempt of the call
Answered == TheCall.input.script[NetworkCalls]
GotResponse == NetworkCalls > 0 /\ Answered.kind = "Response"

\* the text of the first choice of a response, when it has one
HasFirstText(response) ==
    /\ response.choices # <<>>
    /\ ChatModel => response.choices[1].content # None
FirstText(response) ==
    IF ChatModel THEN response.choices[1].content[1]
    ELSE response.choices[1].text

AllWhitespace(s) == \A i \in 1..Len(s) : s[i] \in {" ", "\n", "\t", "\r"}

\* r is t with its leading and trailing whitespace removed and nothing else
\* changed: t is whitespace, r, whitespace, and r neither begins nor ends
\* with whitespace
IsTrimmed(r, t) ==
    /\ \E i \in 0..Len(t) :
          /\ i + Len(r) <= Len(t)
          /\ AllWhitespace(SubSeq(t, 1, i))
          /\ SubSeq(t, i + 1, i + Len(r)) = r
          /\ AllWhitespace(SubSeq(t, i + Len(r) + 1, Len(t)))
    /\ r # <<>> => (~AllWhitespace(<<r[1]>>) /\ ~AllWhitespace(<<r[Len(r)]>>))

\* C5: a successful call returns the first choice's text (legacy) or message
\* content (chat) with leading and trailing whitespace removed and nothing
\* else changed; later choices are not used; a failed call returns no text.
C5_TrimmedFirstChoice ==
    Called
        => /\ IsOk(TheCall.result)
                => /\ GotResponse
                   /\ HasFirstText(Answered.response)
                   /\ IsTrimmed(TheCall.result.value[1],
                                FirstText(Answered.response))
           /\ ~IsOk(TheCall.result) => TheCall.result.value = None

\* two choices, the first padded on both sides: its trimmed text comes back
C5_Witness ==
    /\ Called
    /\ GotResponse
    /\ Len(Answered.response.choices) = 2
    /\ HasFirstText(Answered.response)
    /\ FirstText(Answered.response) = <<" ", "\n", "h", " ", "I", "\t", "\n">>
    /\ TheCall.result = Ok(<<"h", " ", "I">>)

\* the response has no choice, or (chat) its first message has no content
EmptyResponse(response) ==
    \/ response.choices = <<>>
    \/ ChatModel /\ response.choices[1].content = None

\* C6: a response with zero choices fails with EmptyResponseError on both
\* paths, as does a chat response whose first message has no content; the
\* request is not sent again because of it.
C6_EmptyResponseFails ==
    \A k \in 0..(MaxAttempts - 1) :
        (Called /\ BudgetOk /\ FailsThenResponds(TheCall.input.script, k)
            /\ EmptyResponse(TheCall.input.script[k + 1].response))
            => /\ ~IsOk(TheCall.result)
               /\ NetworkCalls <= k + 1
               /\ NetworkCalls = k + 1
                    => TheCall.result = Err("EmptyResponseError")

\* a chat response whose first message has no content and whose second has:
\* the call fails after the one request
C6_Witness ==
    /\ Called
    /\ ChatModel
    /\ GotResponse
    /\ NetworkCalls = 1
    /\ Len(Answered.response.choices) = 2
    /\ Answered.response.choices[1].content = None
    /\ TheCall.result = Err("EmptyResponseError")

\* m starts with p when letters are compared without regard to case
StartsWithIgnoringCase(m, p) ==
    /\ Len(m) >= Len(p)
    /\ \A i \in 1..Len(p) :
          \/ m[i] = p[i]
          \/ \E j \in 1..Len(LowerLetters) :
                p[i] = LowerLetters[j] /\ m[i] = UpperLetters[j]

IsChatIdentifier(m) ==
    \/ StartsWithIgnoringCase(m, <<"g","p","t","-","4">>)
    \/ StartsWithIgnoringCase(m, <<"g","p","t","-","3",".","5","-","t","u","r","b","o">>)

\* C7: should_use_chat_completion(m) is true exactly when m starts, case
\* ignored, with "gpt-4" or "gpt-3.5-turbo"; a call sends to the chat
\* endpoint when it is true and to the legacy endpoint when it is false,
\* never to both.
C7_StrategySelection ==
    /\ client # None
        => (should_use_chat_completion(TheClient.model)
                <=> IsChatIdentifier(TheClient.model))
    /\ Called
        => \A i \in 1..NetworkCalls :
              TheCall.sent[i].endpoint =
                  IF IsChatIdentifier(TheClient.model)
                  THEN "chat/completions" ELSE "completions"

\* an upper-case chat identifier whose request went to the chat endpoint
C7_Witness ==
    /\ Called
    /\ TheClient.model = <<"G","P","T","-","3",".","5","-","T","U","R","B","O">>
    /\ NetworkCalls > 0
    /\ TheCall.sent[1].endpoint = "chat/completions"

\* C8: when the model has no tokenizer mapping the call fails with
\* UnknownModelError before any network call, on both paths.
C8_UnknownModelFails ==
    (Called /\ TheCall.input.estimate = Err("UnknownModelError"))
        => /\ TheCall.result = Err("UnknownModelError")
           /\ NetworkCalls = 0

\* a legacy-path call for an unmapped model with retries configured
C8_Witness ==
    /\ Called
    /\ ~ChatModel
    /\ ConfiguredRetries > 0
    /\ TheCall.input.estimate = Err("UnknownModelError")
    /\ TheCall.input.script[1].kind = "Response"
    /\ TheCall.result = Err("UnknownModelError")

\* C9: every request sent on the chat path carries temperature 0.5,
\* top-p 1.0, frequency penalty 0 and presence penalty 0, as the requests of
\* the legacy path do.
C9_ChatSamplingParameters ==
    Called
        => \A i \in 1..NetworkCalls :
              /\ TheCall.sent[i].request.temperature = Some("0.5")
              /\ TheCall.sent[i].request.top_p = Some("1.0")
              /\ TheCall.sent[i].request.frequency_penalty = Some("0.0")
              /\ TheCall.sent[i].request.presence_penalty = Some("0.0")

\* C10: on the legacy path, for every budget b >= 100, the max-tokens value
\* of the request sent equals b.
C10_MaxTokensIsBudget ==
    (Called /\ ~ChatModel /\ BudgetOk)
        => \A i \in 1..NetworkCalls :
              TheCall.sent[i].request.max_tokens = Some(Budget)

=============================================================================
